---- MODULE Spec2Model ----
(***************************************************************************)
(* Model of the faucet backend's claim endpoint (POST /api/faucet/claim):  *)
(* the route handler of src/src/routes/faucet.ts, the queries of           *)
(* src/src/models/Claim.ts, the tables and indexes of the database service *)
(* (src/unnamed/part_002) and the transfer path of                         *)
(* src/src/services/blockchain.ts.                                         *)
(*                                                                         *)
(* Every `await` of the handler is a point where other requests run, so    *)
(* each awaited query or ledger call is one action: the effect of the      *)
(* query on the tables together with the synchronous code that follows it  *)
(* up to the next await or the response.                                   *)
(*                                                                         *)
(* Time is in milliseconds since a local midnight.  Amounts are in tenths  *)
(* of a token ('0.1' is 1, '1000' is 10000), which keeps them exact.       *)
(***************************************************************************)
EXTENDS Integers, Sequences, FiniteSets

VARIABLES
    now,        \* the clock read by Date.now() and by PostgreSQL's NOW()
    assets,     \* table assets: symbol -> row
    claims,     \* table claims: sequence of rows, id = position (SERIAL)
    cooldowns,  \* table cooldowns: (wallet_address, asset) -> last_claim_at
    balance,    \* faucet wallet's on-chain balance per asset
    transfers,  \* transfers the chain has executed, tx hash = position
    req,        \* the in-flight and finished invocations of the handler
    statusCall  \* the invocation of the status handler

vars == <<now, assets, claims, cooldowns, balance, transfers, req, statusCall>>

----------------------------------------------------------------------------
(* Bounds of the model *)

\* number of handler invocations
NumReqs == 2
\* the clock runs over the midnights of days 0..MaxDays, and over the end of
\* the first cooldown window of day 0 and the millisecond after it
MaxDays == 1

Reqs == 1..NumReqs

\* the faucet starts with one claim amount of every asset, or with one for
\* every invocation
InitialFunding == {1, NumReqs}

----------------------------------------------------------------------------
(* Time *)

MsPerHour == 60 * 60 * 1000

MsPerDay == 24 * MsPerHour

\* DATE(claimed_at) of the unique index: the calendar day of a timestamp
DateOf(t) == t \div MsPerDay

\* cooldown_hours of every seeded asset
SeedCooldownHours == 8

Instants ==
    {d * MsPerDay : d \in 0..MaxDays}
        \cup {SeedCooldownHours * MsPerHour, SeedCooldownHours * MsPerHour + 1}

----------------------------------------------------------------------------
(* Request inputs *)

\* wallet addresses as sent by clients: all lower-case, and the first one
\* again with mixed-case hex digits that are not its EIP-55 checksum
RawWallets == {"0xab", "0xAb", "0xcd"}

\* the request bodies of the model: every wallet asks for BONE, and the first
\* wallet also for the inactive SHIB and for ETH, which has no registry row
RawRequests ==
    {<<w, "bone">> : w \in RawWallets} \cup {<<"0xab", "SHIB">>, <<"0xab", "ETH">>}

\* String.prototype.toLowerCase on the addresses of the model
ToLowerCase(w) == IF w = "0xAb" THEN "0xab" ELSE w

\* String.prototype.toUpperCase on the symbols of the model
ToUpperCase(a) == IF a = "bone" THEN "BONE" ELSE a

\* the route's format check /^0x[a-fA-F0-9]{40}$/ (case-insensitive)
isValidAddress(w) == w \in {"0xab", "0xAb", "0xcd"}

supportedAssets == {"BONE", "SHIB", "TREAT", "USDT", "USDC", "ETH"}

\* ethers.isAddress: a mixed-case address must carry a valid checksum
EthersIsAddress(w) == w \in {"0xab", "0xcd"}

----------------------------------------------------------------------------
(* Tables *)

NoHash == 0

\* the rows seedAssets upserts (those the model carries)
SeedSymbols == {"BONE", "SHIB"}

SeedAmount(s) == IF s = "BONE" THEN 1 ELSE 10000

SeedRow(s, active) ==
    [amount |-> SeedAmount(s), cooldown_hours |-> SeedCooldownHours,
     is_active |-> active]

\* the amount column when the server runs: as seeded, or twice that where the
\* row was written with another amount before
AmountFactors == {1, 2}

\* rows an administrator has switched off (is_active = false)
InactiveSymbols == {"SHIB"}

NoInfo == [amount |-> 0, cooldown_hours |-> 0, is_active |-> FALSE]

\* getAsset without the is_active filter
getAssetAnyStatus(symbol) ==
    IF symbol \in DOMAIN assets THEN assets[symbol] ELSE NoInfo

\* SELECT * FROM assets WHERE symbol = $1 AND is_active = true
getAsset(symbol) ==
    IF symbol \in DOMAIN assets /\ assets[symbol].is_active
    THEN assets[symbol] ELSE NoInfo

Key(w, a) == <<w, a>>

\* the row set of the cooldowns-assets join for one (wallet, asset)
HasCooldownRow(w, a) == Key(w, a) \in DOMAIN cooldowns /\ a \in DOMAIN assets

CooldownMs(a) == assets[a].cooldown_hours * MsPerHour

\* a comparison that already passes at the boundary
CanClaimCmpInclusive(elapsed, cooldownMs) == elapsed >= cooldownMs

CanClaimCmp(elapsed, cooldownMs) == elapsed > cooldownMs

canClaim(w, a) ==
    IF ~HasCooldownRow(w, a) THEN TRUE
    ELSE CanClaimCmp(now - cooldowns[Key(w, a)], CooldownMs(a))

\* no clamping: the second argument whatever its sign
MaxUnclamped(x, y) == y

Max(x, y) == IF x >= y THEN x ELSE y

getRemainingCooldown(w, a) ==
    IF ~HasCooldownRow(w, a) THEN 0
    ELSE Max(0, CooldownMs(a) - (now - cooldowns[Key(w, a)]))

\* unique_daily_claim ON claims (wallet_address, asset, DATE(claimed_at))
UniqueDailyClaimKey(row) == <<row.wallet_address, row.asset, DateOf(row.claimed_at)>>

ViolatesUniqueDailyClaim(row) ==
    \E i \in 1..Len(claims) : UniqueDailyClaimKey(claims[i]) = UniqueDailyClaimKey(row)

\* parseFloat(balance) >= parseFloat(amount); a failed balance read is '0'
checkSufficientBalance(a, amount, rpcOk) ==
    (IF rpcOk THEN balance[a] ELSE 0) >= amount

----------------------------------------------------------------------------
(* Handler invocations *)

IdleReq ==
    [pc |-> "idle", wallet |-> "0xab", asset |-> "bone", info |-> NoInfo,
     claimId |-> 0, txHash |-> NoHash, outcome |-> "none", err |-> "none",
     caught |-> "none", remaining |-> 0, wroteCooldown |-> FALSE, prior |-> {},
     queriedBalance |-> FALSE, responses |-> 0, sends |-> 0, nextClaimAt |-> 0]

\* the address as the client sent it
rawAddress(r) == req[r].wallet

normalizedAddress(r) == ToLowerCase(req[r].wallet)

normalizedAsset(r) == ToUpperCase(req[r].asset)

\* res.status(..).json(..): the handler's response ends the invocation.
\* err is the failure behind the response, if any: "db" (a query threw),
\* "unique" (the insert broke unique_daily_claim), "rpc" (the balance read
\* failed).  caught is what the catch block around the transfer caught.
Respond(r, outcome, err) ==
    [req EXCEPT ![r].pc = "done", ![r].outcome = outcome, ![r].err = err,
                ![r].responses = @ + 1]

\* the locals of router.get('/status/:address'): per active asset the stage
\* of its map callback and the canClaim and remainingCooldown it computed
IdleStatus ==
    [pc |-> "idle", address |-> "0xab", assets |-> <<>>, history |-> {},
     outcome |-> "none"]

statusAddress == ToLowerCase(statusCall.address)

\* res.status(..).json(..) of the status handler
StatusRespond(outcome) == [statusCall EXCEPT !.pc = "done", !.outcome = outcome]

\* remainingCooldown > 0 ? new Date(Date.now() + remainingCooldown) : null
HasNextClaimAt(a) == statusCall.assets[a].remainingCooldown > 0

Init ==
    /\ now = 0
    /\ \E m \in AmountFactors :
         assets = [s \in SeedSymbols |->
                     [SeedRow(s, s \notin InactiveSymbols) EXCEPT !.amount = m * @]]
    /\ claims = <<>>
    /\ cooldowns = <<>>
    /\ \E k \in InitialFunding : balance = [s \in SeedSymbols |-> k * SeedAmount(s)]
    /\ transfers = <<>>
    /\ req = [r \in Reqs |-> IdleReq]
    /\ statusCall = IdleStatus

\* a seeding that writes whole rows, the default is_active included
SeededAssetsReactivating(t) ==
    [s \in DOMAIN t \cup SeedSymbols |->
        IF s \notin SeedSymbols THEN t[s] ELSE SeedRow(s, TRUE)]

\* the table t after INSERT .. ON CONFLICT (symbol) DO UPDATE SET name, amount,
\* cooldown_hours, contract_address for every seed row; a row that is new
\* gets is_active's default
SeededAssets(t) ==
    [s \in DOMAIN t \cup SeedSymbols |->
        IF s \notin SeedSymbols THEN t[s]
        ELSE SeedRow(s, IF s \in DOMAIN t THEN t[s].is_active ELSE TRUE)]

\* part_002 100-128, run by the setup script and by every server start: each
\* seeded row is upserted with the seed's amount and cooldown_hours, and
\* is_active is left as it is
seedAssets ==
    /\ assets' = SeededAssets(assets)
    /\ UNCHANGED <<now, claims, cooldowns, balance, transfers, req, statusCall>>

\* time passes
Tick ==
    /\ \E t \in Instants : t > now /\ now' = t
    /\ UNCHANGED <<assets, claims, cooldowns, balance, transfers, req, statusCall>>

\* faucet.ts 35-65: the request arrives and passes validation
Start(r) ==
    /\ req[r].pc = "idle"
    /\ \A q \in Reqs : q < r => req[q].pc # "idle"
    /\ \E body \in RawRequests :
         LET started == [req[r] EXCEPT !.wallet = body[1], !.asset = body[2],
                            !.prior = {q \in Reqs : req[q].pc = "done"}]
         IN  req' = [req EXCEPT ![r] =
                       IF /\ isValidAddress(body[1])
                          /\ ToUpperCase(body[2]) \in supportedAssets
                       THEN [started EXCEPT !.pc = "getAsset"]
                       ELSE [started EXCEPT !.pc = "done", !.responses = @ + 1,
                                            !.outcome = "ValidationError"]]
    /\ UNCHANGED <<now, assets, claims, cooldowns, balance, transfers, statusCall>>

\* faucet.ts 67-74
GetAsset(r) ==
    /\ req[r].pc = "getAsset"
    /\ \/ req' = Respond(r, "InternalError", "db")
       \/ LET assetInfo == getAsset(normalizedAsset(r))
          IN  req' = IF assetInfo = NoInfo
                     THEN Respond(r, "UnsupportedAsset", "none")
                     ELSE [req EXCEPT ![r].pc = "canClaim", ![r].info = assetInfo]
    /\ UNCHANGED <<now, assets, claims, cooldowns, balance, transfers, statusCall>>

\* a cooldown check whose result is not acted on
CanClaimIgnored(r) ==
    /\ req[r].pc = "canClaim"
    /\ \/ req' = Respond(r, "InternalError", "db")
       \/ req' = [req EXCEPT ![r].pc = "balance"]
    /\ UNCHANGED <<now, assets, claims, cooldowns, balance, transfers, statusCall>>

\* the balance check made ahead of the cooldown check
CanClaimAfterBalance(r) ==
    /\ req[r].pc = "canClaim"
    /\ \/ req' = Respond(r, "InternalError", "db")
       \/ req' = IF ~checkSufficientBalance(normalizedAsset(r), req[r].info.amount, TRUE)
                 THEN [Respond(r, "InsufficientPoolBalance", "none")
                         EXCEPT ![r].queriedBalance = TRUE]
                 ELSE [req EXCEPT ![r].pc =
                         IF canClaim(normalizedAddress(r), normalizedAsset(r))
                         THEN "balance" ELSE "remaining"]
    /\ UNCHANGED <<now, assets, claims, cooldowns, balance, transfers, statusCall>>

\* faucet.ts 76-78
CanClaim(r) ==
    /\ req[r].pc = "canClaim"
    /\ \/ req' = Respond(r, "InternalError", "db")
       \/ req' = [req EXCEPT ![r].pc =
                    IF canClaim(normalizedAddress(r), normalizedAsset(r))
                    THEN "balance" ELSE "remaining"]
    /\ UNCHANGED <<now, assets, claims, cooldowns, balance, transfers, statusCall>>

\* faucet.ts 79-86
Remaining(r) ==
    /\ req[r].pc = "remaining"
    /\ \/ req' = Respond(r, "InternalError", "db")
       \/ req' = [Respond(r, "CooldownActive", "none") EXCEPT ![r].remaining =
                    getRemainingCooldown(normalizedAddress(r), normalizedAsset(r))]
    /\ UNCHANGED <<now, assets, claims, cooldowns, balance, transfers, statusCall>>

\* faucet.ts 88-95
Balance(r) ==
    /\ req[r].pc = "balance"
    /\ \E rpcOk \in BOOLEAN :
         LET asked == [req EXCEPT ![r].queriedBalance = TRUE]
         IN  req' = IF checkSufficientBalance(normalizedAsset(r), req[r].info.amount, rpcOk)
                    THEN [asked EXCEPT ![r].pc = "create"]
                    ELSE [asked EXCEPT ![r].pc = "done", ![r].responses = @ + 1,
                                       ![r].outcome = "InsufficientPoolBalance",
                                       ![r].err = IF rpcOk THEN "none" ELSE "rpc"]
    /\ UNCHANGED <<now, assets, claims, cooldowns, balance, transfers, statusCall>>

PendingRow(r) ==
    [wallet_address |-> normalizedAddress(r), asset |-> normalizedAsset(r),
     amount |-> req[r].info.amount, tx_hash |-> NoHash, status |-> "pending",
     claimed_at |-> now]

\* faucet.ts 97-103, Claim.ts 86-100
Create(r) ==
    /\ req[r].pc = "create"
    /\ \/ /\ req' = Respond(r, "InternalError", "db")
          /\ UNCHANGED claims
       \/ /\ ViolatesUniqueDailyClaim(PendingRow(r))
          /\ req' = Respond(r, "InternalError", "unique")
          /\ UNCHANGED claims
       \/ /\ ~ViolatesUniqueDailyClaim(PendingRow(r))
          /\ claims' = Append(claims, PendingRow(r))
          /\ req' = [req EXCEPT ![r].pc = "sendCheck", ![r].claimId = Len(claims) + 1]
    /\ UNCHANGED <<now, assets, cooldowns, balance, transfers, statusCall>>

\* blockchain.ts 178-189: sendAsset up to the transfer itself
SendCheck(r) ==
    /\ req[r].pc = "sendCheck"
    /\ \E rpcOk \in BOOLEAN :
         req' = IF ~EthersIsAddress(req[r].wallet)
                THEN [req EXCEPT ![r].pc = "markFailed", ![r].caught = "badaddr"]
                ELSE IF ~checkSufficientBalance(normalizedAsset(r), req[r].info.amount, rpcOk)
                THEN [req EXCEPT ![r].pc = "markFailed", ![r].queriedBalance = TRUE,
                                 ![r].caught = IF rpcOk THEN "insufficient" ELSE "rpc"]
                ELSE [req EXCEPT ![r].pc = "sendTx", ![r].queriedBalance = TRUE,
                                 ![r].sends = @ + 1]
    /\ UNCHANGED <<now, assets, claims, cooldowns, balance, transfers, statusCall>>


\* a ledger client that serves one transfer at a time, the invocation that
\* arrived first going first
SendTxSerialized(r) ==
    /\ req[r].pc = "sendTx"
    /\ \A q \in Reqs : q < r => req[q].pc # "sendTx"
    /\ \/ /\ balance[normalizedAsset(r)] >= req[r].info.amount
          /\ balance' = [balance EXCEPT ![normalizedAsset(r)] = @ - req[r].info.amount]
          /\ transfers' = Append(transfers,
                 [to |-> ToLowerCase(req[r].wallet), asset |-> normalizedAsset(r),
                  amount |-> req[r].info.amount, at |-> now, by |-> r])
          /\ req' = [req EXCEPT ![r].pc = "confirm", ![r].txHash = Len(transfers) + 1]
       \/ /\ req' = [req EXCEPT ![r].pc = "markFailed", ![r].caught = "xfer"]
          /\ UNCHANGED <<balance, transfers>>
    /\ UNCHANGED <<now, assets, claims, cooldowns, statusCall>>

\* blockchain.ts 30-80, 191-197: the transfer confirms, or throws.  A transfer
\* that neither confirms nor throws leaves the invocation here.
SendTx(r) ==
    /\ req[r].pc = "sendTx"
    /\ \/ /\ balance[normalizedAsset(r)] >= req[r].info.amount
          /\ balance' = [balance EXCEPT ![normalizedAsset(r)] = @ - req[r].info.amount]
          /\ transfers' = Append(transfers,
                 [to |-> ToLowerCase(req[r].wallet), asset |-> normalizedAsset(r),
                  amount |-> req[r].info.amount, at |-> now, by |-> r])
          /\ req' = [req EXCEPT ![r].pc = "confirm", ![r].txHash = Len(transfers) + 1]
       \/ /\ req' = [req EXCEPT ![r].pc = "markFailed", ![r].caught = "xfer"]
          /\ UNCHANGED <<balance, transfers>>
    /\ UNCHANGED <<now, assets, claims, cooldowns, statusCall>>

\* an update that leaves tx_hash alone when no hash is given
updateClaimStatusKeepingHash(id, status, txHash) ==
    [claims EXCEPT ![id].status = status,
                   ![id].tx_hash = IF txHash = NoHash THEN @ ELSE txHash]

\* UPDATE claims SET status = $1, tx_hash = $2 WHERE id = $3
updateClaimStatus(id, status, txHash) ==
    [claims EXCEPT ![id].status = status, ![id].tx_hash = txHash]

\* faucet.ts 110-111
Confirm(r) ==
    /\ req[r].pc = "confirm"
    /\ \/ /\ claims' = updateClaimStatus(req[r].claimId, "confirmed", req[r].txHash)
          /\ req' = [req EXCEPT ![r].pc = "cooldown"]
       \/ /\ req' = [req EXCEPT ![r].pc = "markFailed", ![r].caught = "updateClaimStatus"]
          /\ UNCHANGED claims
    /\ UNCHANGED <<now, assets, cooldowns, balance, transfers, statusCall>>

\* an insert that keeps the old row on conflict (ON CONFLICT DO NOTHING)
updateCooldownKeepingOld(w, a) ==
    [k \in DOMAIN cooldowns \cup {Key(w, a)} |->
        IF k \in DOMAIN cooldowns THEN cooldowns[k] ELSE now]

\* INSERT INTO cooldowns .. ON CONFLICT (wallet_address, asset) DO UPDATE
updateCooldown(w, a) ==
    [k \in DOMAIN cooldowns \cup {Key(w, a)} |->
        IF k = Key(w, a) THEN now ELSE cooldowns[k]]

\* a cooldown write whose failure is swallowed before the response
CooldownUnchecked(r) ==
    /\ req[r].pc = "cooldown"
    /\ \/ /\ cooldowns' = updateCooldown(normalizedAddress(r), normalizedAsset(r))
          /\ req' = [Respond(r, "Success", "none") EXCEPT ![r].wroteCooldown = TRUE]
       \/ /\ req' = Respond(r, "Success", "none")
          /\ UNCHANGED cooldowns
    /\ UNCHANGED <<now, assets, claims, balance, transfers, statusCall>>

\* a success response whose nextClaimAt leaves out the cooldown
CooldownReportingNow(r) ==
    /\ req[r].pc = "cooldown"
    /\ \/ /\ cooldowns' = updateCooldown(normalizedAddress(r), normalizedAsset(r))
          /\ req' = [Respond(r, "Success", "none") EXCEPT
                       ![r].wroteCooldown = TRUE, ![r].nextClaimAt = now]
       \/ /\ req' = [req EXCEPT ![r].pc = "markFailed", ![r].caught = "updateCooldown"]
          /\ UNCHANGED cooldowns
    /\ UNCHANGED <<now, assets, claims, balance, transfers, statusCall>>

\* faucet.ts 113-116, 131-144
Cooldown(r) ==
    /\ req[r].pc = "cooldown"
    /\ \/ /\ cooldowns' = updateCooldown(normalizedAddress(r), normalizedAsset(r))
          /\ req' = [Respond(r, "Success", "none") EXCEPT
                       ![r].wroteCooldown = TRUE,
                       ![r].nextClaimAt = now + req[r].info.cooldown_hours * MsPerHour]
       \/ /\ req' = [req EXCEPT ![r].pc = "markFailed", ![r].caught = "updateCooldown"]
          /\ UNCHANGED cooldowns
    /\ UNCHANGED <<now, assets, claims, balance, transfers, statusCall>>

\* a catch block that records the cooldown as well
MarkFailedWritingCooldown(r) ==
    /\ req[r].pc = "markFailed"
    /\ \/ /\ claims' = updateClaimStatus(req[r].claimId, "failed", NoHash)
          /\ cooldowns' = updateCooldown(normalizedAddress(r), normalizedAsset(r))
          /\ req' = Respond(r, "TransferFailed", "none")
       \/ /\ req' = Respond(r, "InternalError", "db")
          /\ UNCHANGED <<claims, cooldowns>>
    /\ UNCHANGED <<now, assets, balance, transfers, statusCall>>

\* a catch block with no handler around it: its own error leaves the handler
\* as a rejected promise and no response is sent
MarkFailedUncaught(r) ==
    /\ req[r].pc = "markFailed"
    /\ \/ /\ claims' = updateClaimStatus(req[r].claimId, "failed", NoHash)
          /\ req' = Respond(r, "TransferFailed", "none")
       \/ /\ req' = [req EXCEPT ![r].pc = "done", ![r].outcome = "UnhandledRejection",
                                ![r].err = "db"]
          /\ UNCHANGED claims
    /\ UNCHANGED <<now, assets, cooldowns, balance, transfers, statusCall>>

\* a catch block that hands a failed transfer to the chain a second time
MarkFailedRetrying(r) ==
    /\ req[r].pc = "markFailed"
    /\ \/ /\ req[r].caught = "xfer" /\ req[r].sends < 2
          /\ req' = [req EXCEPT ![r].pc = "sendTx", ![r].sends = @ + 1]
          /\ UNCHANGED claims
       \/ /\ claims' = updateClaimStatus(req[r].claimId, "failed", NoHash)
          /\ req' = Respond(r, "TransferFailed", "none")
       \/ /\ req' = Respond(r, "InternalError", "db")
          /\ UNCHANGED claims
    /\ UNCHANGED <<now, assets, cooldowns, balance, transfers, statusCall>>

\* faucet.ts 118-129: the catch block around the transfer
MarkFailed(r) ==
    /\ req[r].pc = "markFailed"
    /\ \/ /\ claims' = updateClaimStatus(req[r].claimId, "failed", NoHash)
          /\ req' = Respond(r, "TransferFailed", "none")
       \/ /\ req' = Respond(r, "InternalError", "db")
          /\ UNCHANGED claims
    /\ UNCHANGED <<now, assets, cooldowns, balance, transfers, statusCall>>

Next ==
    \/ Tick
    \/ seedAssets
    \/ \E r \in Reqs :
         \/ Start(r)
         \/ GetAsset(r)
         \/ CanClaim(r)
         \/ Remaining(r)
         \/ Balance(r)
         \/ Create(r)
         \/ SendCheck(r)
         \/ SendTx(r)
         \/ Confirm(r)
         \/ Cooldown(r)
         \/ MarkFailed(r)

Spec == Init /\ [][Next]_vars

----------------------------------------------------------------------------
(* The status endpoint *)

\* the address the status request of the model asks about: the first wallet
\* in its mixed-case spelling
StatusWallets == {"0xAb"}

\* faucet.ts 156-168: the request arrives and passes validation
StatusStart ==
    /\ statusCall.pc = "idle"
    /\ \E w \in StatusWallets :
         statusCall' = IF isValidAddress(w)
                   THEN [statusCall EXCEPT !.pc = "getAllAssets", !.address = w]
                   ELSE [StatusRespond("ValidationError") EXCEPT !.address = w]
    /\ UNCHANGED <<now, assets, claims, cooldowns, balance, transfers, req>>

\* SELECT * FROM assets WHERE is_active = true ORDER BY symbol
getAllAssets == {s \in DOMAIN assets : assets[s].is_active}

\* faucet.ts 170-171
StatusGetAllAssets ==
    /\ statusCall.pc = "getAllAssets"
    /\ \/ statusCall' = StatusRespond("InternalError")
       \/ statusCall' = [statusCall EXCEPT !.pc = "map", !.assets =
                       [a \in getAllAssets |->
                          [stage |-> "canClaim", canClaim |-> FALSE,
                           remainingCooldown |-> 0]]]
    /\ UNCHANGED <<now, assets, claims, cooldowns, balance, transfers, req>>

\* faucet.ts 176: the callback of asset a asks canClaim
StatusCanClaim(a) ==
    /\ statusCall.pc = "map"
    /\ a \in DOMAIN statusCall.assets
    /\ statusCall.assets[a].stage = "canClaim"
    /\ \/ statusCall' = StatusRespond("InternalError")
       \/ LET can == canClaim(statusAddress, a)
          IN  statusCall' = [statusCall EXCEPT !.assets[a].canClaim = can,
                            !.assets[a].stage = IF can THEN "ready" ELSE "remaining"]
    /\ UNCHANGED <<now, assets, claims, cooldowns, balance, transfers, req>>

\* faucet.ts 177: canClaim ? 0 : await getRemainingCooldown(..)
StatusRemaining(a) ==
    /\ statusCall.pc = "map"
    /\ a \in DOMAIN statusCall.assets
    /\ statusCall.assets[a].stage = "remaining"
    /\ \/ statusCall' = StatusRespond("InternalError")
       \/ statusCall' = [statusCall EXCEPT !.assets[a].stage = "ready",
                       !.assets[a].remainingCooldown =
                           getRemainingCooldown(statusAddress, a)]
    /\ UNCHANGED <<now, assets, claims, cooldowns, balance, transfers, req>>

\* SELECT * FROM claims WHERE wallet_address = $1
getClaimHistory(w) == {i \in 1..Len(claims) : claims[i].wallet_address = w}

\* faucet.ts 191-204: Promise.all has resolved; history and response
StatusHistory ==
    /\ statusCall.pc = "map"
    /\ \A a \in DOMAIN statusCall.assets : statusCall.assets[a].stage = "ready"
    /\ \/ statusCall' = StatusRespond("InternalError")
       \/ statusCall' = [StatusRespond("Status") EXCEPT
                       !.history = getClaimHistory(statusAddress)]
    /\ UNCHANGED <<now, assets, claims, cooldowns, balance, transfers, req>>

\* the claim handler's invocations and one of the status handler
StatusNext ==
    \/ Tick
    \/ \E r \in Reqs :
         \/ Start(r)
         \/ GetAsset(r)
         \/ CanClaim(r)
         \/ Remaining(r)
         \/ Balance(r)
         \/ Create(r)
         \/ SendCheck(r)
         \/ SendTx(r)
         \/ Confirm(r)
         \/ Cooldown(r)
         \/ MarkFailed(r)
    \/ StatusStart
    \/ StatusGetAllAssets
    \/ \E a \in SeedSymbols :
         \/ StatusCanClaim(a)
         \/ StatusRemaining(a)
    \/ StatusHistory

\* the server with the registry as seeded and a pool that covers every
\* invocation
StatusInit ==
    /\ Init
    /\ \A s \in SeedSymbols :
         /\ assets[s].amount = SeedAmount(s)
         /\ balance[s] = NumReqs * SeedAmount(s)

StatusSpec == StatusInit /\ [][StatusNext]_vars

\* the steps of invocation r that the server takes once the database or the
\* balance read has answered: all but the arrival of the request and the
\* chain's answer to the transfer
Continue(r) ==
    \/ GetAsset(r)
    \/ CanClaim(r)
    \/ Remaining(r)
    \/ Balance(r)
    \/ Create(r)
    \/ SendCheck(r)
    \/ Confirm(r)
    \/ Cooldown(r)
    \/ MarkFailed(r)

\* the clock runs, every database query and balance read is answered and the
\* event loop runs every continuation; tx.wait(1) carries no timeout, so
\* nothing makes the chain answer a transfer
FairSpec ==
    /\ Spec
    /\ WF_vars(Tick)
    /\ \A r \in Reqs : WF_vars(Continue(r))

\* the steps of invocation r that wait for the database only
StoreStep(r) ==
    \/ GetAsset(r)
    \/ CanClaim(r)
    \/ Remaining(r)
    \/ Create(r)
    \/ Confirm(r)
    \/ Cooldown(r)
    \/ MarkFailed(r)

\* the steps of invocation r that wait for the chain: the two balance reads
\* and the transfer
LedgerStep(r) ==
    \/ Balance(r)
    \/ SendCheck(r)
    \/ SendTx(r)

\* the invocation whose balance reads and transfer may hang for ever
Hanging == 1

\* the database answers every query and the event loop runs every
\* continuation; the chain answers every invocation but the hanging one
ParallelSpec ==
    /\ Spec
    /\ WF_vars(Tick)
    /\ \A r \in Reqs : WF_vars(StoreStep(r))
    /\ \A r \in Reqs \ {Hanging} : WF_vars(LedgerStep(r))

----------------------------------------------------------------------------
(* Vocabulary of the properties *)

SameKey(r, q) ==
    /\ normalizedAddress(r) = normalizedAddress(q)
    /\ normalizedAsset(r) = normalizedAsset(q)

Done(r) == req[r].pc = "done"

\* no store query, balance read or transfer of invocation r failed by itself
NoFault(r) ==
    /\ req[r].err \notin {"db", "rpc"}
    /\ req[r].caught \notin {"rpc", "xfer", "updateClaimStatus", "updateCooldown"}

\* invocation r has created a claim record
HasClaim(r) == req[r].claimId # 0

ClaimOf(r) == claims[req[r].claimId]

RECURSIVE Transferred(_, _)
\* what the first n transfers took out of the pool of asset a
Transferred(a, n) ==
    IF n = 0 THEN 0
    ELSE Transferred(a, n - 1) + (IF transfers[n].asset = a THEN transfers[n].amount ELSE 0)

\* the pool of asset a as it was at the start
InitialBalance(a) == balance[a] + Transferred(a, Len(transfers))

Outcomes(o) == {r \in Reqs : req[r].outcome = o}

\* the invocations are concurrent: each started before any had responded
AllConcurrent == \A r \in Reqs : Done(r) /\ req[r].prior = {}

----------------------------------------------------------------------------
(* C1 *)

\* C1: when all NumReqs invocations ran concurrently for one (wallet, asset)
\* that was eligible at the start, within one cooldown duration, with a pool
\* that covers them all, every address accepted by the ledger client and no
\* query or transfer failing, exactly one of them ends in Success and the
\* other NumReqs - 1 end in CooldownActive.
C1_ExactlyOneConfirmed ==
    ( /\ AllConcurrent
      /\ \A r \in Reqs : /\ SameKey(r, 1)
                         /\ normalizedAsset(r) = "BONE"
                         /\ NoFault(r)
                         /\ EthersIsAddress(req[r].wallet)
      /\ InitialBalance("BONE") >= NumReqs * assets["BONE"].amount
      /\ now <= CooldownMs("BONE") )
    => /\ Cardinality(Outcomes("Success")) = 1
       /\ Cardinality(Outcomes("CooldownActive")) = NumReqs - 1

----------------------------------------------------------------------------
(* C2 *)

\* C2: any two transfers the chain executed for one (wallet, asset) lie more
\* than the asset's cooldown duration apart.
C2_TransfersCooldownApart ==
    \A i, j \in 1..Len(transfers) :
        ( /\ i < j
          /\ transfers[i].to = transfers[j].to
          /\ transfers[i].asset = transfers[j].asset )
        => transfers[j].at - transfers[i].at > CooldownMs(transfers[i].asset)

----------------------------------------------------------------------------
(* C3 *)

\* between the cooldown check having passed and the claim being finalized
InCriticalSection(r) ==
    req[r].pc \in {"balance", "create", "sendCheck", "sendTx", "confirm",
                   "cooldown", "markFailed"}

\* C3: at most one invocation per (wallet, asset) is between its cooldown
\* check and the finalization of its claim.
C3_MutualExclusion ==
    \A r, q \in Reqs :
        (r # q /\ SameKey(r, q)) => ~(InCriticalSection(r) /\ InCriticalSection(q))

----------------------------------------------------------------------------
(* C4 *)

\* C4: once an invocation that created a claim has responded, its claim is
\* confirmed exactly when the invocation wrote the cooldown entry.
C4_ConfirmedIffCooldownWritten ==
    \A r \in Reqs :
        (Done(r) /\ HasClaim(r))
        => (ClaimOf(r).status = "confirmed" <=> req[r].wroteCooldown)

----------------------------------------------------------------------------
(* C5 *)

\* the claim of invocation r is failed
ClaimFailed(r) == HasClaim(r) /\ ClaimOf(r).status = "failed"

\* C5: an invocation whose claim is failed has not written the cooldown
\* entry, and the step of an invocation that leaves its claim failed changes
\* neither the cooldown table nor canClaim for its (wallet, asset).
C5_FailedClaimKeepsEligibility ==
    /\ [](\A r \in Reqs : ClaimFailed(r) => ~req[r].wroteCooldown)
    /\ [][\A r \in Reqs :
            (req'[r] # req[r] /\ ClaimFailed(r)')
            => /\ cooldowns' = cooldowns
               /\ canClaim(normalizedAddress(r), normalizedAsset(r))' =
                  canClaim(normalizedAddress(r), normalizedAsset(r))]_vars

\* a transfer threw, the claim was marked failed and the handler has answered
C5_Witness ==
    \E r \in Reqs :
        /\ Done(r)
        /\ ClaimFailed(r)
        /\ req[r].caught = "xfer"
        /\ req[r].outcome = "TransferFailed"

----------------------------------------------------------------------------
(* C6 *)

Terminal == {"confirmed", "failed"}

\* C6: no step changes the status of a claim that is confirmed or failed.
C6_TerminalStatusStays ==
    [][\A i \in 1..Len(claims) :
          claims[i].status \in Terminal => claims'[i].status = claims[i].status]_vars

----------------------------------------------------------------------------
(* C7 *)

\* C7: after the cooldown write failed behind a confirmed transfer and the
\* handler has answered, the claim is still confirmed and carries the
\* transfer's hash, and the cooldown is not recorded.
C7_CooldownFailureLeavesConfirmed ==
    \A r \in Reqs :
        (Done(r) /\ req[r].caught = "updateCooldown")
        => /\ ClaimOf(r).status = "confirmed"
           /\ ClaimOf(r).tx_hash = req[r].txHash
           /\ ClaimOf(r).tx_hash # NoHash
           /\ ~req[r].wroteCooldown

----------------------------------------------------------------------------
(* C8 *)

\* the catch block of invocation r caught a failure of the transfer itself
TransferFailure(r) == req[r].caught \in {"badaddr", "insufficient", "rpc", "xfer"}

\* C8: an invocation q that starts after invocation r of the same
\* (wallet, asset) answered TransferFailed, with no other invocation for that
\* pair, the pool covering every invocation, q's address accepted by the
\* ledger client and none of q's queries or transfers failing, has answered
\* Success for a claim of its own once it has answered.
C8_RetryAfterFailedTransfer ==
    \A r, q \in Reqs :
        ( /\ r # q
          /\ Done(r) /\ req[r].outcome = "TransferFailed" /\ TransferFailure(r)
          /\ r \in req[q].prior
          /\ SameKey(r, q)
          /\ \A p \in Reqs \ {r, q} : req[p].pc = "idle" \/ ~SameKey(p, q)
          /\ Done(q) /\ NoFault(q) /\ EthersIsAddress(req[q].wallet)
          /\ InitialBalance(normalizedAsset(q)) >= NumReqs * req[q].info.amount )
        => req[q].outcome = "Success" /\ HasClaim(q)

----------------------------------------------------------------------------
(* C9 *)

\* symbol s has no row in the registry, or a row that is switched off
Unclaimable(s) == s \notin DOMAIN assets \/ ~assets[s].is_active

\* C9: an invocation for an unclaimable symbol stops at the registry lookup:
\* it creates no claim, writes no cooldown and submits no transfer, and once
\* it has answered (the lookup itself not having failed) the answer is
\* UnsupportedAsset, for an unknown symbol as for an inactive one.  No claim,
\* cooldown entry or transfer exists for such a symbol.
C9_UnsupportedAsset ==
    /\ \A r \in Reqs :
         (req[r].pc # "idle" /\ Unclaimable(normalizedAsset(r)))
         => /\ req[r].pc \in {"getAsset", "done"}
            /\ ~HasClaim(r)
            /\ ~req[r].wroteCooldown
            /\ req[r].txHash = NoHash
            /\ (Done(r) /\ req[r].err # "db" /\ req[r].outcome # "ValidationError")
               => req[r].outcome = "UnsupportedAsset"
    /\ \A i \in 1..Len(claims) : ~Unclaimable(claims[i].asset)
    /\ \A k \in DOMAIN cooldowns : ~Unclaimable(k[2])
    /\ \A i \in 1..Len(transfers) : ~Unclaimable(transfers[i].asset)

\* one invocation for the inactive SHIB and one for the unknown ETH have
\* both answered UnsupportedAsset
C9_Witness ==
    \E r, q \in Reqs :
        /\ Done(r) /\ normalizedAsset(r) = "SHIB" /\ "SHIB" \in DOMAIN assets
        /\ Done(q) /\ normalizedAsset(q) = "ETH" /\ "ETH" \notin DOMAIN assets
        /\ req[r].outcome = "UnsupportedAsset"
        /\ req[q].outcome = "UnsupportedAsset"

----------------------------------------------------------------------------
(* C10 *)

\* invocation r was stopped because the pool held less than the claim amount
StoppedByShortfall(r) ==
    \/ req[r].outcome = "InsufficientPoolBalance" /\ req[r].err = "none"
    \/ req[r].caught = "insufficient"

\* C10: an invocation stopped by a pool shortfall has created no claim and
\* written no cooldown entry.
C10_ShortfallCreatesNoClaim ==
    \A r \in Reqs : StoppedByShortfall(r) => ~HasClaim(r) /\ ~req[r].wroteCooldown

----------------------------------------------------------------------------
(* C11 *)

\* the chain executed a transfer submitted by invocation r
HasTransferred(r) == \E i \in 1..Len(transfers) : transfers[i].by = r

\* C11: an invocation whose cooldown check finds the pair not eligible goes on
\* to read the remaining cooldown and, unless that read fails, answers
\* CooldownActive with max(0, cooldown - elapsed) as read then; it changes no
\* table and the pool, and it has created no claim, written no cooldown
\* entry, queried no balance and submitted no transfer.
C11_CooldownRejection ==
    /\ [](\A r \in Reqs :
            (req[r].pc = "remaining" \/ req[r].outcome = "CooldownActive")
            => /\ ~HasClaim(r)
               /\ ~req[r].wroteCooldown
               /\ ~req[r].queriedBalance
               /\ req[r].txHash = NoHash
               /\ ~HasTransferred(r))
    /\ [][\A r \in Reqs :
            ( /\ req[r].pc = "canClaim"
              /\ req'[r].pc # "canClaim"
              /\ ~canClaim(normalizedAddress(r), normalizedAsset(r))
              /\ req'[r].err # "db" )
            => req'[r].pc = "remaining"]_vars
    /\ [][\A r \in Reqs :
            (req[r].pc = "remaining" /\ req'[r] # req[r])
            => /\ <<claims, cooldowns, balance, transfers>>' =
                  <<claims, cooldowns, balance, transfers>>
               /\ Done(r)'
               /\ \/ req'[r].outcome = "InternalError" /\ req'[r].err = "db"
                  \/ /\ req'[r].outcome = "CooldownActive"
                     /\ Key(normalizedAddress(r), normalizedAsset(r)) \in DOMAIN cooldowns
                     /\ LET last == cooldowns[Key(normalizedAddress(r), normalizedAsset(r))]
                            left == assets[normalizedAsset(r)].cooldown_hours * MsPerHour
                                        - (now - last)
                        IN  req'[r].remaining = IF left > 0 THEN left ELSE 0]_vars

\* an invocation was rejected by the cooldown check with time left to wait
C11_Witness ==
    \E r \in Reqs :
        /\ Done(r)
        /\ req[r].outcome = "CooldownActive"
        /\ req[r].remaining > 0

----------------------------------------------------------------------------
(* C12 *)

\* C12: in the state in which an invocation answers Success, canClaim is
\* false for its (wallet, asset) and getRemainingCooldown equals the asset's
\* whole cooldown duration.
C12_SuccessStartsCooldown ==
    [][\A r \in Reqs :
          (req[r].outcome # "Success" /\ req'[r].outcome = "Success")
          => /\ ~canClaim(normalizedAddress(r), normalizedAsset(r))'
             /\ getRemainingCooldown(normalizedAddress(r), normalizedAsset(r))' =
                assets'[normalizedAsset(r)].cooldown_hours * MsPerHour]_vars

\* an invocation has just answered Success on a day after an earlier,
\* expired cooldown entry of the same pair was written
C12_Witness ==
    \E r, q \in Reqs :
        /\ r # q /\ SameKey(r, q)
        /\ req[q].outcome = "Success" /\ q \in req[r].prior
        /\ req[r].outcome = "Success"
        /\ cooldowns[Key(normalizedAddress(r), normalizedAsset(r))] = now
        /\ now > 0

----------------------------------------------------------------------------
(* C13 *)

\* the pairs that have a row in the join of cooldowns and assets
CooldownKeys == {k \in DOMAIN cooldowns : k[2] \in DOMAIN assets}

\* C13: canClaim is true for a pair without a cooldown entry and otherwise
\* exactly when more than the asset's cooldown has passed since the entry
\* (false at exactly the cooldown, true one millisecond later); the handler
\* takes its cooldown branch by that answer.
C13_EligibleStrictlyAfterCooldown ==
    /\ [](\A w \in {ToLowerCase(x) : x \in RawWallets}, a \in SeedSymbols :
            /\ <<w, a>> \notin CooldownKeys => canClaim(w, a)
            /\ <<w, a>> \in CooldownKeys =>
                 LET elapsed == now - cooldowns[<<w, a>>]
                     cooldown == assets[a].cooldown_hours * MsPerHour
                 IN  /\ elapsed <= cooldown => ~canClaim(w, a)
                     /\ elapsed >= cooldown + 1 => canClaim(w, a))
    /\ [][\A r \in Reqs :
            (req[r].pc = "canClaim" /\ req'[r].pc \in {"balance", "remaining"})
            => LET k == <<normalizedAddress(r), normalizedAsset(r)>>
               IN  req'[r].pc = "balance"
                   <=> \/ k \notin CooldownKeys
                       \/ now - cooldowns[k] >
                            assets[k[2]].cooldown_hours * MsPerHour]_vars

\* an invocation was turned away when exactly the cooldown had passed
C13_Witness ==
    \E r \in Reqs :
        LET k == <<normalizedAddress(r), normalizedAsset(r)>>
        IN  /\ req[r].pc = "remaining"
            /\ k \in CooldownKeys
            /\ now - cooldowns[k] = assets[k[2]].cooldown_hours * MsPerHour

\* an invocation passed the cooldown check one millisecond after the cooldown
C13_WitnessPast ==
    \E r \in Reqs :
        LET k == <<normalizedAddress(r), normalizedAsset(r)>>
        IN  /\ req[r].pc = "balance"
            /\ k \in CooldownKeys
            /\ now - cooldowns[k] = assets[k[2]].cooldown_hours * MsPerHour + 1

----------------------------------------------------------------------------
(* C14 *)

\* C14: getRemainingCooldown is the cooldown less the time passed since the
\* entry, and 0 when that is negative; it is 0 for a pair without an entry
\* and 0 whenever canClaim is true.
C14_RemainingIsClampedDifference ==
    \A w \in {ToLowerCase(x) : x \in RawWallets}, a \in SeedSymbols :
        /\ <<w, a>> \notin CooldownKeys => getRemainingCooldown(w, a) = 0
        /\ <<w, a>> \in CooldownKeys =>
             LET left == assets[a].cooldown_hours * MsPerHour - (now - cooldowns[<<w, a>>])
             IN  getRemainingCooldown(w, a) = IF left > 0 THEN left ELSE 0
        /\ canClaim(w, a) => getRemainingCooldown(w, a) = 0

\* more than the cooldown has passed since the entry of a pair that was
\* answered CooldownActive earlier: the difference is negative and clamped
C14_Witness ==
    /\ \E r \in Reqs :
        LET k == <<normalizedAddress(r), normalizedAsset(r)>>
        IN  /\ req[r].outcome = "CooldownActive"
            /\ k \in CooldownKeys
            /\ now - cooldowns[k] > assets[k[2]].cooldown_hours * MsPerHour
            /\ getRemainingCooldown(k[1], k[2]) = 0

----------------------------------------------------------------------------
(* C15 *)

\* C15: the amount of a claim row is the amount column of its asset's row at
\* the step that inserts the claim, whatever writes the registry sees before
\* or after; and no step changes amount, wallet or asset of an existing row.
C15_AmountAsConfiguredAtCreation ==
    [][/\ Len(claims') = Len(claims) + 1
          => claims'[Len(claims')].amount =
                assets[claims'[Len(claims')].asset].amount
       /\ \A i \in 1..Len(claims) :
            /\ claims'[i].amount = claims[i].amount
            /\ claims'[i].wallet_address = claims[i].wallet_address
            /\ claims'[i].asset = claims[i].asset]_vars

\* the second half of C15 alone: rows keep amount, wallet and asset
C15_ClaimFieldsImmutable ==
    [][\A i \in 1..Len(claims) :
            /\ Len(claims') >= Len(claims)
            /\ claims'[i].amount = claims[i].amount
            /\ claims'[i].wallet_address = claims[i].wallet_address
            /\ claims'[i].asset = claims[i].asset]_vars

----------------------------------------------------------------------------
(* C16 *)

\* C16: an invocation that answered Success has had its transfer executed by
\* the chain, its claim set to confirmed and the cooldown written, none of
\* them failing; its claim is confirmed with the transaction hash of the
\* response, and the (wallet, asset) has a cooldown entry.
C16_SuccessMeansAllSucceeded ==
    \A r \in Reqs :
        req[r].outcome = "Success"
        => /\ req[r].caught = "none" /\ req[r].err = "none"
           /\ req[r].txHash \in 1..Len(transfers)
           /\ transfers[req[r].txHash].by = r
           /\ HasClaim(r)
           /\ ClaimOf(r).status = "confirmed"
           /\ ClaimOf(r).tx_hash = req[r].txHash
           /\ req[r].wroteCooldown
           /\ Key(normalizedAddress(r), normalizedAsset(r)) \in DOMAIN cooldowns

\* an invocation has answered Success while another one of the same
\* (wallet, asset) was in flight
C16_Witness ==
    \E r, q \in Reqs :
        /\ r # q /\ SameKey(r, q)
        /\ Done(r) /\ req[r].outcome = "Success"
        /\ ~Done(q) /\ req[q].pc # "idle"

----------------------------------------------------------------------------
(* C17 *)

\* C17: the claim of an invocation that has responded is confirmed or
\* failed: no invocation responds while its own claim is pending.
C17_ReturnedClaimIsTerminal ==
    \A r \in Reqs :
        (Done(r) /\ HasClaim(r)) => ClaimOf(r).status \in Terminal

----------------------------------------------------------------------------
(* C18 *)

\* C18: an invocation that has handed its transfer to the chain responds
\* after a bounded wait, whether or not the chain ever answers.
C18_TransferWaitIsBounded ==
    \A r \in Reqs : (req[r].pc = "sendTx") ~> Done(r)

----------------------------------------------------------------------------
(* C19 *)

\* the responses of the handler: 200, 400, 429 and the 500s
TypedOutcomes ==
    {"Success", "ValidationError", "UnsupportedAsset", "CooldownActive",
     "InsufficientPoolBalance", "TransferFailed", "InternalError"}

\* C19: whatever queries, balance reads and transfers fail, an invocation
\* never sends a second response, has sent exactly one when it has finished,
\* and that one is a response of the handler, a failure being answered by one
\* of its error responses: no error leaves the handler unanswered.
C19_OneResponseNoEscape ==
    \A r \in Reqs :
        /\ req[r].responses <= 1
        /\ ~Done(r) => req[r].responses = 0 /\ req[r].outcome = "none"
        /\ Done(r) =>
             /\ req[r].responses = 1
             /\ req[r].outcome \in TypedOutcomes
             /\ (req[r].err # "none" \/ req[r].caught # "none")
                => req[r].outcome \in
                     {"InternalError", "TransferFailed", "InsufficientPoolBalance"}

\* an invocation has finished after two failures in a row: the transfer path
\* threw, and so did the catch block's own update
C19_Witness ==
    \E r \in Reqs :
        /\ Done(r) /\ req[r].caught # "none" /\ req[r].err = "db"
        /\ req[r].responses = 1 /\ req[r].outcome = "InternalError"

----------------------------------------------------------------------------
(* C20 *)

\* C20: when an invocation asks the store to change the status of its claim
\* and the claim is already confirmed or failed, the store (if it answers)
\* leaves status and tx_hash of the claim as they are and the invocation is
\* told of a conflict.
C20_TerminalTransitionIsConflict ==
    [][\A r \in Reqs :
          ( /\ req[r].pc \in {"confirm", "markFailed"}
            /\ HasClaim(r) /\ ClaimOf(r).status \in Terminal
            /\ req'[r] # req[r]
            /\ req'[r].err # "db" )
          => /\ claims'[req[r].claimId].status = ClaimOf(r).status
             /\ claims'[req[r].claimId].tx_hash = ClaimOf(r).tx_hash
             /\ req'[r].err = "conflict"]_vars

----------------------------------------------------------------------------
(* C21 *)

\* C21: a claim row that is confirmed carries a transaction hash, and a row
\* that is pending or failed carries none.
C21_HashIffConfirmed ==
    \A i \in 1..Len(claims) :
        /\ claims[i].status \in {"pending", "confirmed", "failed"}
        /\ claims[i].status = "confirmed" <=> claims[i].tx_hash # NoHash

\* a claim that was confirmed with its hash has been set to failed since
C21_Witness ==
    \E r \in Reqs :
        /\ HasClaim(r) /\ req[r].txHash # NoHash
        /\ req[r].caught = "updateCooldown"
        /\ ClaimOf(r).status = "failed"

----------------------------------------------------------------------------
(* C22 *)

\* the lower-case address and upper-case symbol of the body of invocation r
LowerUpper(r) == <<ToLowerCase(req[r].wallet), ToUpperCase(req[r].asset)>>

\* C22: every row of claims and of cooldowns is stored under a lower-case
\* address and an upper-case symbol; an invocation reads the registry row of
\* its upper-cased symbol, decides the cooldown check on the entry of its
\* lower-cased address and upper-cased symbol, and creates its claim and
\* writes its cooldown entry under them.
C22_LookupsUseNormalizedValues ==
    /\ [](/\ \A i \in 1..Len(claims) :
               /\ ToLowerCase(claims[i].wallet_address) = claims[i].wallet_address
               /\ ToUpperCase(claims[i].asset) = claims[i].asset
          /\ \A k \in DOMAIN cooldowns :
               ToLowerCase(k[1]) = k[1] /\ ToUpperCase(k[2]) = k[2]
          /\ \A r \in Reqs : HasClaim(r) =>
               <<ClaimOf(r).wallet_address, ClaimOf(r).asset>> = LowerUpper(r))
    /\ [][\A r \in Reqs :
            /\ (req[r].pc = "getAsset" /\ req'[r].pc = "canClaim")
               => /\ LowerUpper(r)[2] \in DOMAIN assets
                  /\ req'[r].info = assets[LowerUpper(r)[2]]
            /\ (req[r].pc = "canClaim" /\ req'[r].pc \in {"balance", "remaining"})
               => (req'[r].pc = "remaining"
                   <=> /\ LowerUpper(r) \in CooldownKeys
                       /\ now - cooldowns[LowerUpper(r)] <=
                            assets[LowerUpper(r)[2]].cooldown_hours * MsPerHour)
            /\ (~req[r].wroteCooldown /\ req'[r].wroteCooldown)
               => /\ LowerUpper(r) \in DOMAIN cooldowns'
                  /\ cooldowns'[LowerUpper(r)] = now
                  /\ \A k \in DOMAIN cooldowns' \ {LowerUpper(r)} :
                       k \in DOMAIN cooldowns /\ cooldowns'[k] = cooldowns[k]]_vars

\* two requests whose addresses differ in letter case only: the second one
\* was turned away on the cooldown entry the first one wrote
C22_Witness ==
    \E r, q \in Reqs :
        /\ req[r].wallet # req[q].wallet /\ LowerUpper(r) = LowerUpper(q)
        /\ req[r].outcome = "Success" /\ r \in req[q].prior
        /\ req[q].outcome = "CooldownActive"

\* C22 for the status handler: its cooldown reads and its history read use
\* the lower-cased address
C22_StatusReadsNormalized ==
    /\ [](statusCall.outcome = "Status" =>
            \A i \in statusCall.history :
                claims[i].wallet_address = ToLowerCase(statusCall.address))
    /\ [][/\ \A a \in SeedSymbols :
               ( /\ statusCall.pc = "map" /\ statusCall'.pc = "map"
                 /\ a \in DOMAIN statusCall.assets
                 /\ statusCall.assets[a].stage = "canClaim"
                 /\ statusCall'.assets[a].stage # "canClaim" )
               => (statusCall'.assets[a].canClaim
                   <=> \/ <<ToLowerCase(statusCall.address), a>> \notin CooldownKeys
                       \/ now - cooldowns[<<ToLowerCase(statusCall.address), a>>] >
                            assets[a].cooldown_hours * MsPerHour)
          /\ (statusCall.outcome # "Status" /\ statusCall'.outcome = "Status")
             => statusCall'.history =
                  {i \in 1..Len(claims) :
                     claims[i].wallet_address = ToLowerCase(statusCall.address)}]_vars

----------------------------------------------------------------------------
(* C23 *)

\* C23: an invocation resolves the asset, then checks the cooldown, then the
\* pool balance, then creates its pending claim, then hands the transfer to
\* the ledger client: one that finds the wallet in cooldown while the pool is
\* short answers CooldownActive (unless a query fails) without reading the
\* balance, no claim exists before the balance was read, and a transfer is
\* under way or executed only for an invocation whose claim exists, the claim
\* being pending when the chain executes the transfer.
C23_FixedStepOrder ==
    /\ [](\A r \in Reqs :
            /\ req[r].pc \notin {"idle", "getAsset", "done"} => req[r].info # NoInfo
            /\ req[r].queriedBalance =>
                 /\ req[r].pc \notin {"idle", "getAsset", "canClaim", "remaining"}
                 /\ req[r].outcome # "CooldownActive"
            /\ HasClaim(r) => req[r].queriedBalance
            /\ ( \/ req[r].pc \in {"sendCheck", "sendTx", "confirm", "cooldown", "markFailed"}
                 \/ HasTransferred(r) \/ req[r].txHash # NoHash )
               => HasClaim(r))
    /\ [][\A r \in Reqs :
            /\ ( /\ req[r].pc = "canClaim" /\ req'[r] # req[r]
                 /\ LowerUpper(r) \in CooldownKeys
                 /\ now - cooldowns[LowerUpper(r)] <=
                      assets[LowerUpper(r)[2]].cooldown_hours * MsPerHour
                 /\ balance[LowerUpper(r)[2]] < req[r].info.amount )
               => \/ req'[r].pc = "remaining"
                  \/ req'[r].outcome = "InternalError" /\ req'[r].err = "db"
            /\ (req[r].pc = "remaining" /\ req'[r] # req[r])
               => \/ req'[r].outcome = "CooldownActive"
                  \/ req'[r].outcome = "InternalError" /\ req'[r].err = "db"
            /\ (req[r].txHash = NoHash /\ req'[r].txHash # NoHash)
               => HasClaim(r) /\ ClaimOf(r).status = "pending"]_vars

\* an invocation was answered CooldownActive while the pool, untouched since
\* the invocation arrived, did not hold one claim amount
C23_Witness ==
    \E r \in Reqs :
        /\ req[r].outcome = "CooldownActive"
        /\ req[r].prior = Reqs \ {r}
        /\ balance[LowerUpper(r)[2]] < req[r].info.amount

----------------------------------------------------------------------------
(* C24 *)

\* no other invocation for the (wallet, asset) of r was in progress while r
\* ran: each other one either has not arrived or had responded before r
\* arrived
RanAlone(r) ==
    \A q \in Reqs \ {r} :
        \/ req[q].pc = "idle"
        \/ q \in req[r].prior
        \/ ~SameKey(r, q)

\* C24: an invocation that found its asset active, its wallet eligible and
\* the pool sufficient, with no other invocation for its (wallet, asset) in
\* progress and no query failing, has created its pending claim and called
\* the ledger client, whatever claims of the same day the table holds.
C24_AdmittedClaimIsCreated ==
    \A r \in Reqs :
        ( /\ Done(r) /\ RanAlone(r)
          /\ req[r].queriedBalance /\ req[r].outcome # "InsufficientPoolBalance"
          /\ req[r].err # "db" )
        => /\ HasClaim(r)
           /\ req[r].caught # "none" \/ req[r].txHash # NoHash

----------------------------------------------------------------------------
(* C25 *)

\* C25: a transaction hash written to a claim row stays on that row in every
\* later state.
C25_WrittenHashIsKept ==
    [][\A i \in 1..Len(claims) :
          claims[i].tx_hash # NoHash
          => /\ i <= Len(claims')
             /\ claims'[i].tx_hash = claims[i].tx_hash]_vars

----------------------------------------------------------------------------
(* C26 *)

\* C26: of two concurrent invocations for one asset and different wallets,
\* with a pool that held exactly one claim amount of the asset, at most one
\* has created a claim record.
C26_OneClaimForOneAmount ==
    \A r, q \in Reqs :
        ( /\ r # q
          /\ req[r].pc # "idle" /\ req[q].pc # "idle"
          /\ q \notin req[r].prior /\ r \notin req[q].prior
          /\ normalizedAsset(r) = normalizedAsset(q)
          /\ normalizedAddress(r) # normalizedAddress(q)
          /\ req[r].info # NoInfo /\ req[q].info = req[r].info
          /\ InitialBalance(normalizedAsset(r)) = req[r].info.amount )
        => ~(HasClaim(r) /\ HasClaim(q))

----------------------------------------------------------------------------
(* C27 *)

\* the transfers the chain executed for invocation r
TransfersOf(r) == {i \in 1..Len(transfers) : transfers[i].by = r}

\* C27: an invocation hands at most one transfer to the chain, and none when
\* it answers UnsupportedAsset, CooldownActive or InsufficientPoolBalance.
C27_AtMostOneTransfer ==
    \A r \in Reqs :
        /\ req[r].sends <= 1
        /\ Cardinality(TransfersOf(r)) <= req[r].sends
        /\ req[r].outcome \in {"UnsupportedAsset", "CooldownActive", "InsufficientPoolBalance"}
           => req[r].sends = 0

\* an invocation has answered after its one transfer failed, with funds left
\* in the pool for another try
C27_Witness ==
    \E r \in Reqs :
        /\ Done(r) /\ req[r].caught = "xfer" /\ req[r].sends = 1
        /\ balance[normalizedAsset(r)] >= req[r].info.amount

----------------------------------------------------------------------------
(* C28 *)

\* C28: an invocation for another (wallet, asset) than the hanging one's
\* responds, whether or not the chain ever answers the hanging invocation's
\* balance reads and transfer.
C28_OtherKeysProceed ==
    \A r \in Reqs \ {Hanging} :
        (req[r].pc # "idle" /\ ~SameKey(r, Hanging)) ~> Done(r)

\* an invocation for another key has answered Success, having arrived while
\* the hanging invocation was in flight, whose transfer is still unanswered
C28_Witness ==
    \E r \in Reqs \ {Hanging} :
        /\ req[Hanging].pc = "sendTx"
        /\ ~SameKey(r, Hanging) /\ Hanging \notin req[r].prior
        /\ Done(r) /\ req[r].outcome = "Success"

----------------------------------------------------------------------------
(* C29 *)

\* the claim endpoint's part of C29
C29_ClaimEndpoint ==
    \A r \in Reqs : req[r].outcome = "CooldownActive" => req[r].remaining > 0

\* the status endpoint's part of C29
C29_StatusEndpoint ==
    statusCall.outcome = "Status" =>
        \A a \in DOMAIN statusCall.assets :
            /\ ~statusCall.assets[a].canClaim => statusCall.assets[a].remainingCooldown > 0
            /\ HasNextClaimAt(a) <=> ~statusCall.assets[a].canClaim

\* C29: a CooldownActive response carries a remaining time above 0; a
\* status response carries a remaining time above 0 for every asset it
\* reports with canClaim false, and a next-claim time for exactly those.
C29_RejectionReportsPositiveRemaining ==
    C29_ClaimEndpoint /\ C29_StatusEndpoint

----------------------------------------------------------------------------
(* C30 *)

\* C30: after invocation r answered Success, the cooldown check of another
\* invocation for the same (wallet, asset) that is made after the
\* nextClaimAt of r's response does not turn it away, and one that is made
\* before the recorded last_claim_at plus the cooldown does (unless the
\* query fails).
C30_NextClaimAtIsHonoured ==
    [][\A r, q \in Reqs :
          ( /\ r # q /\ SameKey(r, q)
            /\ req[r].outcome = "Success"
            /\ req[q].pc = "canClaim" /\ req'[q] # req[q]
            /\ req'[q].err # "db" )
          => /\ now > req[r].nextClaimAt => req'[q].pc = "balance"
             /\ now < cooldowns[LowerUpper(q)]
                        + assets[LowerUpper(q)[2]].cooldown_hours * MsPerHour
                => req'[q].pc = "remaining"]_vars

\* an invocation has passed the cooldown check after the nextClaimAt of an
\* earlier Success for its (wallet, asset)
C30_Witness ==
    \E r, q \in Reqs :
        /\ r # q /\ SameKey(r, q)
        /\ req[r].outcome = "Success" /\ r \in req[q].prior
        /\ req[q].pc = "balance"
        /\ now > req[r].nextClaimAt

----------------------------------------------------------------------------
(* C31 *)

\* C31: getAsset answers differently for a symbol whose row is inactive and
\* for a symbol that has no row.
C31_RegistryDistinguishesInactive ==
    \A s \in DOMAIN assets, u \in supportedAssets \ DOMAIN assets :
        ~assets[s].is_active => getAsset(s) # getAsset(u)

----------------------------------------------------------------------------
(* C32 *)

\* invocation r has run from the initial store (no claim and no cooldown
\* row, no other invocation) for BONE with a pool that covers its amount,
\* and no query, balance read or transfer failed by itself
RanFromInitialStore(r) ==
    /\ Done(r) /\ NoFault(r)
    /\ \A q \in Reqs \ {r} : req[q].pc = "idle"
    /\ normalizedAsset(r) = "BONE" /\ req[r].info # NoInfo
    /\ InitialBalance("BONE") >= req[r].info.amount

\* what such a run ends in: Success, its claim confirmed with the hash of
\* the one transfer, and the cooldown entry written
EndsInSuccess(r) ==
    /\ req[r].outcome = "Success"
    /\ Len(claims) = 1 /\ claims[1].status = "confirmed" /\ claims[1].tx_hash = 1
    /\ Len(transfers) = 1
    /\ DOMAIN cooldowns = {LowerUpper(r)}

\* the run of the all-lower-case spelling of the first wallet
C32_LowerCaseRun ==
    \A r \in Reqs :
        (RanFromInitialStore(r) /\ req[r].wallet = "0xab") => EndsInSuccess(r)

\* C32: run from one and the same store and pool, a request ends the same
\* way and leaves the same store whatever the letter case of its address:
\* every spelling of the first wallet ends as its lower-case spelling does.
C32_CaseInsensitiveOutcome ==
    \A r \in Reqs :
        (RanFromInitialStore(r) /\ ToLowerCase(req[r].wallet) = "0xab")
        => EndsInSuccess(r)

----------------------------------------------------------------------------
(* C33 *)

\* C33: seeding keeps every row's is_active, sets amount and cooldown_hours
\* of the seeded symbols to the seed's and nothing else, and seeding twice
\* gives the table that seeding once gives; the step that seeds changes no
\* row of claims or cooldowns.
C33_SeedingFrame ==
    /\ [](LET once == SeededAssets(assets)
          IN  /\ SeededAssets(once) = once
              /\ DOMAIN once = DOMAIN assets \cup SeedSymbols
              /\ \A s \in DOMAIN assets :
                   /\ once[s].is_active = assets[s].is_active
                   /\ s \notin SeedSymbols => once[s] = assets[s]
              /\ \A s \in SeedSymbols :
                   /\ once[s].amount = SeedAmount(s)
                   /\ once[s].cooldown_hours = SeedCooldownHours)
    /\ [][assets' # assets
          => /\ assets' = SeededAssets(assets)
             /\ \A s \in DOMAIN assets :
                  s \in DOMAIN assets' /\ assets'[s].is_active = assets[s].is_active
             /\ claims' = claims /\ cooldowns' = cooldowns]_vars

\* the registry was seeded anew after an invocation had read another amount
\* from it, with claim and cooldown rows in the tables and a row switched off
C33_Witness ==
    /\ \E i \in 1..Len(claims) :
         claims[i].amount # assets[claims[i].asset].amount
    /\ cooldowns # <<>>
    /\ \E s \in DOMAIN assets : ~assets[s].is_active
    /\ assets = SeededAssets(assets)

====
